---- MODULE Spec2Model ----
(***************************************************************************)
(* Model of the secure-deletion subsystem of qr_generator.py:              *)
(*   SecureFileEraser.secure_erase  (7-pass VSITR overwrite, then unlink)  *)
(*   AutoEraseTimer                 (start / reset / cancel / expiry)      *)
(* The foreground (command loop) thread issues start(), reset() and        *)
(* cancel(); every start() creates one threading.Timer thread that, after  *)
(* the delay, runs _erase_callback.  Bytes are written "00", "FF", "AA";   *)
(* "XX" stands for a byte of the original file contents.  A file's         *)
(* contents are a run-length encoded sequence of <<byte, length>> runs.    *)
(***************************************************************************)
EXTENDS Integers, Sequences, FiniteSets, TLC

\* ---- bounds of the model ----
MaxTimers == 2      \* threading.Timer objects one instance may create
MaxTime   == 2      \* last instant of the clock
MaxDelay  == 1      \* largest delay_seconds an instance is built with
MaxChunks == 1      \* file sizes reach (MaxChunks chunks + 1 byte)
MaxExt    == 1      \* changes another process makes to the file during an erase

\* ---- program constants ----
VSITR_PASSES == 7
VSITR_PATTERNS == <<"00", "FF", "00", "FF", "00", "FF", "AA">>
chunk_size == 65536

Main == 0                       \* the foreground thread (command loop)
NoTimer == 0                    \* self.timer is None
TimerIds == 1..MaxTimers        \* the threading.Timer threads
Threads == {Main} \cup TimerIds

Min(a, b) == IF a < b THEN a ELSE b

\* sizes around the chunk boundaries: 0, 1, chunk-1, chunk, chunk+1, ...
FileSizes == {s \in {k * chunk_size + d : k \in 0..MaxChunks, d \in {-1, 0, 1}} : s >= 0}
             \cup {1}
Delays == 1..MaxDelay

\* ---- run-length encoded file contents ----
RECURSIVE Size(_)
Size(data) == IF data = <<>> THEN 0 ELSE data[1][2] + Size(Tail(data))

RECURSIVE Norm(_)
Norm(data) ==
    IF data = <<>> THEN <<>>
    ELSE IF data[1][2] = 0 THEN Norm(Tail(data))
    ELSE LET rest == Norm(Tail(data)) IN
         IF rest # <<>> /\ rest[1][1] = data[1][1]
         THEN <<(<<data[1][1], data[1][2] + rest[1][2]>>)>> \o Tail(rest)
         ELSE <<data[1]>> \o rest

RECURSIVE Take(_, _)
Take(data, n) ==
    IF n <= 0 \/ data = <<>> THEN <<>>
    ELSE IF data[1][2] >= n THEN <<(<<data[1][1], n>>)>>
    ELSE <<data[1]>> \o Take(Tail(data), n - data[1][2])

RECURSIVE Drop(_, _)
Drop(data, n) ==
    IF data = <<>> THEN <<>>
    ELSE IF n <= 0 THEN data
    ELSE IF data[1][2] > n THEN <<(<<data[1][1], data[1][2] - n>>)>> \o Tail(data)
    ELSE Drop(Tail(data), n - data[1][2])

\* f.write(pattern * n) at file offset off: overwrites in place, extends the
\* file when the write runs past its end (a hole before off reads as "00")
WriteAt(data, off, byte, n) ==
    LET hole == IF off > Size(data) THEN <<(<<"00", off - Size(data)>>)>> ELSE <<>>
    IN Norm(Take(data, off) \o hole \o <<(<<byte, n>>)>> \o Drop(data, off + n))

VARIABLES
    delay_seconds,  \* self.delay_seconds
    cancelled,      \* self.cancelled
    timer,          \* self.timer: NoTimer or the id of the current Timer
    lock,           \* self.lock: the set of threads holding it
    pc,             \* position of every thread
    finished,       \* threading.Timer.finished of every Timer
    deadline,       \* instant at which a Timer's wait times out
    nTimers,        \* Timers created so far
    inReset,        \* the running start() was called from reset()
    now,            \* the clock
    fkind,          \* what filepath names: "absent", "file", "dir" or
                    \* "link" (a symbolic link to a regular file)
    fdata,          \* contents of the file reached through filepath
    loc,            \* locals of the secure_erase call of every thread
    etrace,         \* I/O events of the secure_erase call of every thread
    calls,          \* history: "none", "start" (one start() and nothing
                    \* else was called) or "more"
    cancelHist,     \* history: "never", "returned" (cancel() has returned
                    \* and start() was not called since) or "restarted"
    replaced,       \* history: armed Timers that a later start() replaced
    resetAt,        \* history: instant of the last reset() of an Armed timer
    cmd,            \* the command loop: "none" (no loop), "init", "loop",
                    \* or the command being served: "r", "e", "q", "done"
    extLeft         \* changes another process may still make to the file

vars == <<delay_seconds, cancelled, timer, lock, pc, finished, deadline,
          nTimers, inReset, now, fkind, fdata, loc, etrace, calls, cancelHist,
          replaced, resetAt, cmd, extLeft>>

envVars   == <<cmd, extLeft>>
timerVars == <<cancelled, timer, finished, deadline, nTimers>>
fileVars  == <<fkind, fdata>>
histVars  == <<calls, cancelHist, replaced, resetAt>>

NoLocals == [file_size |-> 0, pass_num |-> 0, remaining |-> 0, pos |-> 0,
             ret |-> "none", entryKind |-> "none", entrySize |-> 0,
             failedAt |-> "none", printed |-> "none"]

\* history kept with the locals: what filepath named, and the size of the
\* file, when secure_erase was called
Entered == [NoLocals EXCEPT !.entryKind = fkind, !.entrySize = Size(fdata)]

Event(ev, pass, off, len, byte) ==
    [ev |-> ev, pass |-> pass, off |-> off, len |-> len, byte |-> byte,
     total |-> 0]

\* AutoEraseTimer.__init__ on a path that names a file of one of the given
\* sizes (directly, or through one of the given kinds of link), a directory,
\* or nothing
InitWith(sizes, links) ==
    /\ delay_seconds \in Delays
    /\ cancelled = FALSE
    /\ timer = NoTimer
    /\ lock = {}
    /\ pc = [t \in Threads |-> IF t = Main THEN "idle" ELSE "unborn"]
    /\ finished = [t \in TimerIds |-> FALSE]
    /\ deadline = [t \in TimerIds |-> 0]
    /\ nTimers = 0
    /\ inReset = FALSE
    /\ now = 0
    /\ \/ /\ fkind \in {"file"} \cup links
          /\ \E s \in sizes : fdata = Norm(<<(<<"XX", s>>)>>)
       \/ /\ fkind \in {"absent", "dir"}
          /\ fdata = <<>>
    /\ loc = [t \in Threads |-> NoLocals]
    /\ etrace = [t \in Threads |-> <<>>]
    /\ calls = "none"
    /\ cancelHist = "never"
    /\ replaced = {}
    /\ resetAt = -1

\* the timer is exercised on an empty and on a one-byte file, secure_erase
\* alone (EraseSpec) on every size of FileSizes
Init == InitWith({0, 1}, {}) /\ cmd = "none" /\ extLeft = 0
EraseInit == InitWith(FileSizes, {"link"}) /\ cmd = "none" /\ extLeft = 0

\* ---- threading primitives ----
\* threading.Lock is not reentrant: acquire() waits while anyone holds it,
\* the caller included
CanAcquire_always(l, t) == TRUE
CanAcquire(l, t) == l = {}

\* threading.Timer.cancel(): sets the Timer's finished event
TimerCancel_noEffect(fin, t) == fin
TimerCancel(fin, t) == [fin EXCEPT ![t] = TRUE]

\* ---- state of the instance, in the spec's terms ----
Armed(t) == t # NoTimer /\ pc[t] \in {"waiting", "cb_lock", "cb_check"}
TimerState ==
    IF cancelled THEN "Cancelled"
    ELSE IF timer = NoTimer THEN "Idle"
    ELSE IF Armed(timer) THEN "Armed" ELSE "Fired"

\* ---- the foreground thread calls an operation ----
Call(op) ==
    /\ pc[Main] = "idle"
    /\ pc' = [pc EXCEPT ![Main] = op \o "_lock"]
    /\ calls' = IF calls = "none" /\ op = "start" THEN "start" ELSE "more"
    /\ cancelHist' = IF cancelHist = "returned" /\ op = "start" THEN "restarted"
                      ELSE cancelHist
    /\ UNCHANGED <<envVars, delay_seconds, timerVars, lock, inReset, now, fileVars,
                   loc, etrace, replaced, resetAt>>

CallStart ==
    /\ nTimers < MaxTimers
    /\ Call("start")
CallReset == Call("reset")
CallCancel == Call("cancel")

\* `with self.lock:` of start(), reset() and cancel()
Acquire(op) ==
    /\ pc[Main] = op \o "_lock"
    /\ CanAcquire(lock, Main)
    /\ lock' = lock \cup {Main}
    /\ pc' = [pc EXCEPT ![Main] = op \o "_body"]
    /\ UNCHANGED <<envVars, delay_seconds, timerVars, inReset, now, fileVars, loc,
                   etrace, histVars>>

StartAcquire == Acquire("start")
ResetAcquire == Acquire("reset")
CancelAcquire == Acquire("cancel")

\* start(): cancel the previous Timer, clear the flag, create and start a new
\* Timer, leave the with block
StartCancelledFlag_kept == cancelled
StartCancelledFlag == FALSE
StartBody ==
    /\ pc[Main] = "start_body"
    /\ LET id == nTimers + 1 IN
       /\ finished' = IF timer # NoTimer THEN TimerCancel(finished, timer)
                       ELSE finished
       /\ replaced' = IF Armed(timer) THEN replaced \cup {timer} ELSE replaced
       /\ cancelled' = StartCancelledFlag
       /\ timer' = id
       /\ nTimers' = id
       /\ deadline' = [deadline EXCEPT ![id] = now + delay_seconds]
       /\ pc' = [pc EXCEPT ![id] = "waiting",
                           ![Main] = IF inReset THEN "reset_print" ELSE "idle"]
    /\ lock' = lock \ {Main}
    /\ UNCHANGED <<envVars, delay_seconds, inReset, now, fileVars, loc, etrace, calls,
                   cancelHist, resetAt>>

\* reset(): when not cancelled and a Timer exists, cancel it and call
\* self.start() with the lock still held; otherwise leave the with block
ResetRearms(c, tm) == ~c /\ tm # NoTimer
ResetBody ==
    /\ pc[Main] = "reset_body"
    /\ IF ResetRearms(cancelled, timer)
       THEN /\ finished' = TimerCancel(finished, timer)
            /\ inReset' = TRUE
            /\ resetAt' = IF Armed(timer) THEN now ELSE resetAt
            /\ pc' = [pc EXCEPT ![Main] = "start_lock"]
            /\ UNCHANGED lock
       ELSE /\ pc' = [pc EXCEPT ![Main] = "idle"]
            /\ lock' = lock \ {Main}
            /\ UNCHANGED <<finished, inReset, resetAt>>
    /\ UNCHANGED <<envVars, delay_seconds, cancelled, timer, deadline, nTimers, now,
                   fileVars, loc, etrace, calls, cancelHist, replaced>>

\* cancel(): set the flag, cancel and drop the Timer, leave the with block
CancelBody ==
    /\ pc[Main] = "cancel_body"
    /\ cancelled' = TRUE
    /\ finished' = IF timer # NoTimer THEN TimerCancel(finished, timer) ELSE finished
    /\ timer' = NoTimer
    /\ lock' = lock \ {Main}
    /\ pc' = [pc EXCEPT ![Main] = "idle"]
    /\ cancelHist' = "returned"
    /\ UNCHANGED <<envVars, delay_seconds, deadline, nTimers, inReset, now, fileVars,
                   loc, etrace, calls, replaced, resetAt>>

\* ---- the Timer thread (threading.Timer.run) ----
\* finished.wait(interval) returns; the callback is called unless the Timer
\* was cancelled by then
TimerWake(t) ==
    /\ pc[t] = "waiting"
    /\ finished[t] \/ now >= deadline[t]
    /\ pc' = [pc EXCEPT ![t] = IF finished[t] THEN "done" ELSE "cb_lock"]
    /\ UNCHANGED <<envVars, delay_seconds, timerVars, lock, inReset, now, fileVars,
                   loc, etrace, histVars>>

\* `with self.lock:` of _erase_callback
CbAcquire(t) ==
    /\ pc[t] = "cb_lock"
    /\ CanAcquire(lock, t)
    /\ lock' = lock \cup {t}
    /\ pc' = [pc EXCEPT ![t] = "cb_check"]
    /\ UNCHANGED <<envVars, delay_seconds, timerVars, inReset, now, fileVars, loc,
                   etrace, histVars>>

\* `if self.cancelled: return`, else SecureFileEraser.secure_erase is called
CallbackSkips_never(c) == FALSE
CallbackSkips_always(c) == TRUE
CallbackSkips(c) == c
CbCheck_unlocked(t) ==
    /\ pc[t] = "cb_check"
    /\ lock' = lock \ {t}
    /\ IF CallbackSkips(cancelled)
       THEN /\ pc' = [pc EXCEPT ![t] = "done"]
            /\ finished' = [finished EXCEPT ![t] = TRUE]
            /\ UNCHANGED loc
       ELSE /\ pc' = [pc EXCEPT ![t] = "e_check"]
            /\ loc' = [loc EXCEPT ![t] = Entered]
            /\ UNCHANGED finished
    /\ UNCHANGED <<envVars, delay_seconds, cancelled, timer, deadline, nTimers,
                   inReset, now, fileVars, etrace, histVars>>
CbCheck(t) ==
    /\ pc[t] = "cb_check"
    /\ IF CallbackSkips(cancelled)
       THEN /\ pc' = [pc EXCEPT ![t] = "done"]
            /\ finished' = [finished EXCEPT ![t] = TRUE]
            /\ lock' = lock \ {t}
            /\ UNCHANGED loc
       ELSE /\ pc' = [pc EXCEPT ![t] = "e_check"]
            /\ loc' = [loc EXCEPT ![t] = Entered]
            /\ UNCHANGED <<finished, lock>>
    /\ UNCHANGED <<envVars, delay_seconds, cancelled, timer, deadline, nTimers, inReset,
                   now, fileVars, etrace, histVars>>

\* secure_erase has returned (its locals are gone): leave the with block;
\* run() sets finished
CbReturn(t) ==
    /\ pc[t] = "e_ret"
    /\ pc' = [pc EXCEPT ![t] = "fired"]
    /\ finished' = [finished EXCEPT ![t] = TRUE]
    /\ lock' = lock \ {t}
    /\ loc' = [loc EXCEPT ![t] = NoLocals]
    /\ etrace' = [etrace EXCEPT ![t] = <<>>]
    /\ UNCHANGED <<envVars, delay_seconds, cancelled, timer, deadline, nTimers, inReset,
                   now, fileVars, histVars>>

\* time passes: up to MaxTime, and beyond it up to the deadline of a Timer
\* that is still waiting
Tick ==
    /\ \/ now < MaxTime
       \/ \E t \in TimerIds : pc[t] = "waiting" /\ ~finished[t] /\ now < deadline[t]
    /\ now' = now + 1
    /\ UNCHANGED <<envVars, delay_seconds, timerVars, lock, pc, inReset, fileVars, loc,
                   etrace, histVars>>

\* ---- SecureFileEraser.secure_erase, run by thread t ----
eraseFrame == <<envVars, delay_seconds, timerVars, lock, inReset, now, histVars>>

\* filepath.exists() and filepath.is_file(): both follow symbolic links
IsRegularFile(kind) == kind \in {"file", "link"}

\* `except Exception: ... return False`
\* (failedAt is history: the step that raised)
Raise_reportsTrue(t) ==
    /\ pc' = [pc EXCEPT ![t] = "e_ret"]
    /\ loc' = [loc EXCEPT ![t].ret = "True", ![t].printed = "erased",
                          ![t].failedAt = pc[t]]
Raise(t) ==
    /\ pc' = [pc EXCEPT ![t] = "e_ret"]
    /\ loc' = [loc EXCEPT ![t].ret = "False", ![t].printed = "error",
                          ![t].failedAt = pc[t]]

\* `if not filepath.exists() or not filepath.is_file(): return False`
CheckFailed_true == "True"
CheckFailed == "False"
EraseCheck(t) ==
    /\ pc[t] = "e_check"
    /\ IF IsRegularFile(fkind)
       THEN /\ pc' = [pc EXCEPT ![t] = "e_stat"]
            /\ UNCHANGED loc
       ELSE /\ pc' = [pc EXCEPT ![t] = "e_ret"]
            /\ loc' = [loc EXCEPT ![t].ret = CheckFailed]
    /\ UNCHANGED <<eraseFrame, fileVars, etrace>>

\* `file_size = filepath.stat().st_size`; pass_num starts at 0
EraseStat(t) ==
    /\ pc[t] = "e_stat"
    /\ IF fkind = "absent"
       THEN Raise(t)
       ELSE /\ pc' = [pc EXCEPT ![t] = "e_open"]
            /\ loc' = [loc EXCEPT ![t].file_size = Size(fdata), ![t].pass_num = 0]
    /\ UNCHANGED <<eraseFrame, fileVars, etrace>>

\* `open(filepath, 'r+b')`, `f.seek(0)`, `remaining = file_size`
PassBytes_remeasured(t) == Size(fdata)
PassBytes(t) == loc[t].file_size
EraseOpen(t) ==
    /\ pc[t] = "e_open"
    /\ \E ok \in BOOLEAN :
         IF ok /\ IsRegularFile(fkind)
         THEN /\ pc' = [pc EXCEPT ![t] = "e_write"]
              /\ loc' = [loc EXCEPT ![t].pos = 0, ![t].remaining = PassBytes(t)]
         ELSE Raise(t)
    /\ UNCHANGED <<eraseFrame, fileVars, etrace>>

\* one iteration of `while remaining > 0`
WriteSize_fullChunk(remaining) == chunk_size
WriteSize(remaining) == Min(chunk_size, remaining)
Pattern(pass_num) == VSITR_PATTERNS[pass_num + 1]
EraseWrite(t) ==
    /\ pc[t] = "e_write"
    /\ loc[t].remaining > 0
    /\ \E ok \in BOOLEAN :
         IF ok
         THEN LET n == WriteSize(loc[t].remaining)
                  b == Pattern(loc[t].pass_num) IN
              /\ fdata' = WriteAt(fdata, loc[t].pos, b, n)
              /\ etrace' = [etrace EXCEPT ![t] =
                    Append(@, Event("write", loc[t].pass_num + 1, loc[t].pos, n, b))]
              /\ loc' = [loc EXCEPT ![t].pos = @ + n, ![t].remaining = @ - n]
              /\ UNCHANGED pc
         ELSE /\ Raise(t)
              /\ UNCHANGED <<fdata, etrace>>
    /\ UNCHANGED <<eraseFrame, fkind>>

\* the loop is over: `f.flush()`
EraseFlush(t) ==
    /\ pc[t] = "e_write"
    /\ loc[t].remaining <= 0
    /\ \E ok \in BOOLEAN :
         IF ok
         THEN /\ pc' = [pc EXCEPT ![t] = "e_sync"]
              /\ etrace' = [etrace EXCEPT ![t] =
                    Append(@, Event("flush", loc[t].pass_num + 1, 0, 0, "--"))]
              /\ UNCHANGED loc
         ELSE /\ Raise(t)
              /\ UNCHANGED etrace
    /\ UNCHANGED <<eraseFrame, fileVars>>

\* `os.fsync(f.fileno())`, then the file is closed
EraseSync_unsynced(t) ==
    /\ pc[t] = "e_sync"
    /\ pc' = [pc EXCEPT ![t] = "e_progress"]
    /\ UNCHANGED <<eraseFrame, fileVars, loc, etrace>>
EraseSync(t) ==
    /\ pc[t] = "e_sync"
    /\ \E ok \in BOOLEAN :
         IF ok
         THEN /\ pc' = [pc EXCEPT ![t] = "e_progress"]
              /\ etrace' = [etrace EXCEPT ![t] =
                    Append(@, Event("sync", loc[t].pass_num + 1, 0, 0, "--"))]
              /\ UNCHANGED loc
         ELSE /\ Raise(t)
              /\ UNCHANGED etrace
    /\ UNCHANGED <<eraseFrame, fileVars>>

\* `progress.update(...)`, then the next pass of `for pass_num in range(7)`
ProgressIndex_zeroBased(pass_num) == pass_num
ProgressIndex(pass_num) == pass_num + 1
MorePasses_offByOne(pass_num) == pass_num + 1 < VSITR_PASSES - 1
MorePasses(pass_num) == pass_num + 1 < VSITR_PASSES
EraseProgress(t) ==
    /\ pc[t] = "e_progress"
    /\ etrace' = [etrace EXCEPT ![t] =
          Append(@, [Event("progress", ProgressIndex(loc[t].pass_num), 0, 0, "--")
                        EXCEPT !.total = VSITR_PASSES])]
    /\ IF MorePasses(loc[t].pass_num)
       THEN /\ pc' = [pc EXCEPT ![t] = "e_open"]
            /\ loc' = [loc EXCEPT ![t].pass_num = @ + 1]
       ELSE /\ pc' = [pc EXCEPT ![t] = "e_unlink"]
            /\ UNCHANGED loc
    /\ UNCHANGED <<eraseFrame, fileVars>>

\* `filepath.unlink()`, `return True`
EraseUnlink(t) ==
    /\ pc[t] = "e_unlink"
    /\ \E ok \in BOOLEAN :
         IF ok /\ fkind # "absent"
         THEN /\ fkind' = "absent"
              /\ fdata' = <<>>
              /\ etrace' = [etrace EXCEPT ![t] =
                    Append(@, Event("unlink", 0, 0, 0, "--"))]
              /\ pc' = [pc EXCEPT ![t] = "e_ret"]
              /\ loc' = [loc EXCEPT ![t].ret = "True", ![t].printed = "erased"]
         ELSE /\ Raise(t)
              /\ UNCHANGED <<fileVars, etrace>>
    /\ UNCHANGED eraseFrame

\* what a call of secure_erase gives back: the returned bool and the final
\* console message ("erased", "error", or "none" when nothing is printed)
Report(t) == [success |-> loc[t].ret, message |-> loc[t].printed]

EraseStep(t) ==
    \/ EraseCheck(t)
    \/ EraseStat(t)
    \/ EraseOpen(t)
    \/ EraseWrite(t)
    \/ EraseFlush(t)
    \/ EraseSync(t)
    \/ EraseProgress(t)
    \/ EraseUnlink(t)

MainStep ==
    \/ CallStart
    \/ CallReset
    \/ CallCancel
    \/ StartAcquire
    \/ ResetAcquire
    \/ CancelAcquire
    \/ StartBody
    \/ ResetBody
    \/ CancelBody

TimerStep(t) ==
    \/ TimerWake(t)
    \/ CbAcquire(t)
    \/ CbCheck(t)
    \/ CbReturn(t)
    \/ EraseStep(t)

Next ==
    \/ MainStep
    \/ \E t \in TimerIds : TimerStep(t)
    \/ Tick

Spec == Init /\ [][Next]_vars

\* ---- secure_erase called directly (the 'e' command, line 285) ----
EraseCall ==
    /\ pc[Main] = "idle"
    /\ pc' = [pc EXCEPT ![Main] = "e_check"]
    /\ loc' = [loc EXCEPT ![Main] = Entered]
    /\ UNCHANGED <<eraseFrame, fileVars, etrace>>

EraseReturn ==
    /\ pc[Main] = "e_ret"
    /\ pc' = [pc EXCEPT ![Main] = "idle"]
    /\ loc' = [loc EXCEPT ![Main] = NoLocals]
    /\ etrace' = [etrace EXCEPT ![Main] = <<>>]
    /\ UNCHANGED <<eraseFrame, fileVars>>

EraseNext ==
    \/ EraseCall
    \/ EraseStep(Main)
    \/ EraseReturn

EraseSpec == EraseInit /\ [][EraseNext]_vars

\* ---- secure_erase while another process changes the file ----
extFrame == <<delay_seconds, timerVars, lock, pc, inReset, now, fkind, loc,
              etrace, histVars, cmd>>

\* the file is truncated, to nothing or by one byte
ExtTruncate ==
    /\ extLeft > 0
    /\ fkind = "file"
    /\ Size(fdata) > 0
    /\ \E n \in {0, Size(fdata) - 1} : fdata' = Take(fdata, n)
    /\ extLeft' = extLeft - 1
    /\ UNCHANGED extFrame

\* one byte ("GG") is appended to the file
ExtGrow ==
    /\ extLeft > 0
    /\ fkind = "file"
    /\ fdata' = Norm(fdata \o <<(<<"GG", 1>>)>>)
    /\ extLeft' = extLeft - 1
    /\ UNCHANGED extFrame

ExtInit == InitWith(FileSizes, {}) /\ cmd = "none" /\ extLeft = MaxExt
ExtNext ==
    \/ EraseNext
    \/ ExtTruncate
    \/ ExtGrow
ExtSpec == ExtInit /\ [][ExtNext]_vars

\* ---- the program: generate_qr_code starts the timer on the file it has
\* saved, then _monitor_scans serves the commands r, e and q ----
loopFrame == <<delay_seconds, timerVars, lock, inReset, now, fileVars,
               cancelHist, replaced, resetAt, extLeft>>

\* `self.erase_timer.start()` of generate_qr_code
LoopStart ==
    /\ cmd = "init"
    /\ pc[Main] = "idle"
    /\ pc' = [pc EXCEPT ![Main] = "start_lock"]
    /\ cmd' = "loop"
    /\ calls' = "start"
    /\ UNCHANGED <<loopFrame, loc, etrace>>

\* a command is read; 'r' calls reset(), 'e' and 'q' call cancel()
LoopCommand(c, op) ==
    /\ cmd \in {"loop", "r"}
    /\ pc[Main] = "idle"
    /\ pc' = [pc EXCEPT ![Main] = op \o "_lock"]
    /\ cmd' = c
    /\ calls' = "more"
    /\ UNCHANGED <<loopFrame, loc, etrace>>

CmdReset == LoopCommand("r", "reset")
CmdErase == LoopCommand("e", "cancel")
CmdQuit == LoopCommand("q", "cancel")

\* 'e', cancel() has returned: `if output_path.exists(): secure_erase(...)`,
\* `break`
LoopEraseNow ==
    /\ cmd = "e"
    /\ pc[Main] = "idle"
    /\ IF fkind # "absent"
       THEN /\ pc' = [pc EXCEPT ![Main] = "e_check"]
            /\ loc' = [loc EXCEPT ![Main] = Entered]
            /\ UNCHANGED cmd
       ELSE /\ cmd' = "done"
            /\ UNCHANGED <<pc, loc>>
    /\ UNCHANGED <<loopFrame, calls, etrace>>

LoopEraseDone ==
    /\ cmd = "e"
    /\ pc[Main] = "e_ret"
    /\ pc' = [pc EXCEPT ![Main] = "idle"]
    /\ loc' = [loc EXCEPT ![Main] = NoLocals]
    /\ etrace' = [etrace EXCEPT ![Main] = <<>>]
    /\ cmd' = "done"
    /\ UNCHANGED <<loopFrame, calls>>

LoopInit ==
    /\ InitWith({1}, {})
    /\ fkind = "file"
    /\ cmd = "init"
    /\ extLeft = 0
LoopNext ==
    \/ LoopStart
    \/ CmdReset
    \/ CmdErase
    \/ CmdQuit
    \/ StartAcquire
    \/ ResetAcquire
    \/ CancelAcquire
    \/ StartBody
    \/ ResetBody
    \/ CancelBody
    \/ LoopEraseNow
    \/ EraseStep(Main)
    \/ LoopEraseDone
    \/ \E t \in TimerIds : TimerStep(t)
    \/ Tick
LoopSpec == LoopInit /\ [][LoopNext]_vars

\* every started operation and every Timer thread keeps running, and time
\* passes; calling a new operation is the user's choice
Progress ==
    \/ StartAcquire \/ ResetAcquire \/ CancelAcquire
    \/ StartBody \/ ResetBody \/ CancelBody
FairSpec ==
    /\ Spec
    /\ WF_vars(Progress)
    /\ WF_vars(Tick)
    /\ \A t \in TimerIds : WF_vars(TimerStep(t))

TypeOK ==
    /\ delay_seconds \in Delays
    /\ cancelled \in BOOLEAN
    /\ timer \in {NoTimer} \cup TimerIds
    /\ lock \subseteq Threads
    /\ nTimers \in 0..MaxTimers
    /\ now \in 0..(MaxTime + MaxTimers * MaxDelay)
    /\ fkind \in {"absent", "file", "dir", "link"}
    /\ cmd \in {"none", "init", "loop", "r", "e", "q", "done"}
    /\ extLeft \in 0..MaxExt
    /\ calls \in {"none", "start", "more"}
    /\ cancelHist \in {"never", "returned", "restarted"}

\* ---- what the claims speak about ----
\* Timers whose callback has called secure_erase
ErasePcs == {"e_check", "e_stat", "e_open", "e_write", "e_sync", "e_progress",
             "e_unlink", "e_ret"}
EraseInvocations == {t \in TimerIds : pc[t] \in ErasePcs \cup {"fired"}}
\* thread t calls secure_erase in this step
EraseBeginsBy(t) == pc[t] = "cb_check" /\ pc'[t] = "e_check"

\* C1: for every interleaving of cancel() with the expiry callback: once
\* cancel() has returned (and start() has not been called again), no
\* secure_erase begins, also when the callback was already waiting for the
\* lock when cancel() ran.
C1_NoEraseAfterCancel ==
    [][(\E t \in TimerIds : EraseBeginsBy(t)) => cancelHist # "returned"]_vars
C1_Witness ==
    /\ cancelHist = "returned"
    /\ pc[Main] = "idle"
    /\ \E t \in TimerIds : pc[t] = "cb_check" /\ finished[t] /\ cancelled

\* C2: after a single start() and no other call, the expiry invokes
\* secure_erase, and invokes it exactly once: never twice, and eventually
\* once.
C2_ExpiryErasesExactlyOnce ==
    /\ [](calls = "start" => Cardinality(EraseInvocations) <= 1)
    /\ (<>[](calls = "start")) => <>(Cardinality(EraseInvocations) = 1)
C2_Witness ==
    /\ calls = "start"
    /\ \E t \in TimerIds : pc[t] = "fired"
    /\ fkind = "absent"

\* C3: reset() on an Armed timer re-arms a fresh countdown of the full delay
\* counted from the reset: no erase begins before resetAt + delay_seconds,
\* and a Timer with a deadline of at least resetAt + delay_seconds gets armed.
Rearmed ==
    /\ timer # NoTimer
    /\ pc[timer] = "waiting"
    /\ ~finished[timer]
    /\ deadline[timer] >= resetAt + delay_seconds
C3_ResetRestartsFullDelay ==
    /\ [][(resetAt >= 0 /\ \E t \in TimerIds : EraseBeginsBy(t))
            => now >= resetAt + delay_seconds]_vars
    /\ (resetAt >= 0) ~> Rearmed

\* C4: start(), reset() and cancel() never wait for the lock while the
\* calling thread itself holds it, and the lock is free of the caller once
\* the operation has completed.
C4_OperationsReturn ==
    /\ pc[Main] \in {"start_lock", "reset_lock", "cancel_lock"} => Main \notin lock
    /\ pc[Main] = "idle" => Main \notin lock

\* C5: no erase ever begins from a Timer that was armed when a later start()
\* replaced it.
C5_ReplacedTimerNeverFires ==
    [][\A t \in TimerIds : EraseBeginsBy(t) => t \notin replaced]_vars

\* C6: reset() on a timer that is not Armed (never started, cancelled, or
\* already fired) returns having changed no timer state and no file.
ResetRuns == pc[Main] = "reset_body" /\ pc'[Main] # "reset_body"
C6_ResetNoopUnlessArmed ==
    [][(ResetRuns /\ TimerState # "Armed")
        => /\ pc'[Main] = "idle"
           /\ lock' = lock \ {Main}
           /\ UNCHANGED <<timerVars, fileVars>>]_vars

\* C7 (as claimed): start() on a cancelled or fired timer is a no-op.
StartRuns == pc[Main] = "start_body" /\ pc'[Main] # "start_body"
Writes(t, p) == SelectSeq(etrace[t], LAMBDA e : e.ev = "write" /\ e.pass = p)
Count(t, ev, p) == Len(SelectSeq(etrace[t], LAMBDA e : e.ev = ev /\ e.pass = p))
RECURSIVE Total(_)
Total(ws) == IF ws = <<>> THEN 0 ELSE ws[1].len + Total(Tail(ws))

\* C8: when secure_erase reports success on a file of any size, the path no
\* longer exists, every one of the 7 passes was written in full and synced,
\* and the unlink was the last thing done.
C8_SuccessMeansGone ==
    \A t \in Threads : (loc[t].ret = "True" /\ loc[t].entryKind = "file") =>
        /\ fkind = "absent"
        /\ \A p \in 1..7 : /\ Count(t, "sync", p) = 1
                            /\ Total(Writes(t, p)) >= loc[t].entrySize
        /\ etrace[t] # <<>>
        /\ etrace[t][Len(etrace[t])].ev = "unlink"
C8_Witness ==
    /\ loc[Main].ret = "True"
    /\ loc[Main].entrySize = 0

\* C9: in a successful secure_erase of a file of size S, every pass writes
\* exactly S bytes, contiguously from offset 0, all equal to the pass's
\* pattern byte, in the order 00 FF 00 FF 00 FF AA.
C9_PassesWriteExactlyS ==
    \A t \in Threads : loc[t].ret = "True" =>
        \A p \in 1..7 :
            LET ws == Writes(t, p) IN
            /\ Total(ws) = loc[t].entrySize
            /\ \A i \in 1..Len(ws) :
                  /\ ws[i].off = Total(SubSeq(ws, 1, i - 1))
                  /\ ws[i].len > 0
                  /\ ws[i].byte = <<"00", "FF", "00", "FF", "00", "FF", "AA">>[p]
            /\ \A i, j \in 1..Len(etrace[t]) :
                  (i < j /\ etrace[t][i].ev = "write" /\ etrace[t][j].ev = "write")
                      => etrace[t][i].pass <= etrace[t][j].pass
C9_Witness ==
    /\ loc[Main].ret = "True"
    /\ loc[Main].entrySize = chunk_size + 1
    /\ Len(Writes(Main, 7)) = 2

\* C10: secure_erase on a path that does not exist reports failure, writes
\* nothing, unlinks nothing and leaves the file system as it was.
C10_AbsentPathFails ==
    \A t \in Threads : (pc[t] = "e_ret" /\ loc[t].entryKind = "absent") =>
        /\ loc[t].ret = "False"
        /\ etrace[t] = <<>>
        /\ fkind = "absent" /\ fdata = <<>>
C10_Witness ==
    /\ pc[Main] = "e_ret"
    /\ loc[Main].entryKind = "absent"

\* ---- failures of a pass ----
PassFailed(t) == loc[t].failedAt \in {"e_open", "e_write", "e_sync"}
FailedPass(t) == loc[t].pass_num + 1
AbortsAtFailedPass(t) ==
    /\ pc[t] = "e_ret"
    /\ loc[t].ret = "False"
    /\ fkind = loc[t].entryKind
    /\ \A i \in 1..Len(etrace[t]) :
          /\ etrace[t][i].ev # "unlink"
          /\ etrace[t][i].pass <= FailedPass(t)
          /\ etrace[t][i].ev \in {"sync", "progress"} => etrace[t][i].pass < FailedPass(t)

\* C11 (as claimed): when the open, write, flush or sync of pass k fails,
\* secure_erase runs no later pass, does not unlink, reports failure, and the
\* report identifies the failing pass k.
C11_PassFailureReportsPass ==
    \A t \in Threads : PassFailed(t) =>
        /\ AbortsAtFailedPass(t)
        /\ "pass" \in DOMAIN Report(t)
        /\ Report(t).pass = FailedPass(t)
\* C11 (amended): when the open, write, flush or sync of pass k fails,
\* secure_erase runs no later pass, does not unlink and returns False (with
\* an error message); nothing of what it reports is a pass index.
C11_PassFailureAborts ==
    \A t \in Threads : PassFailed(t) =>
        /\ AbortsAtFailedPass(t)
        /\ Report(t) = [success |-> "False", message |-> "error"]
C11_Witness ==
    /\ loc[Main].failedAt = "e_sync"
    /\ FailedPass(Main) = 4
    /\ Count(Main, "progress", 3) = 1

\* ---- order of the I/O of one secure_erase call ----
IO(t) == SelectSeq(etrace[t], LAMBDA e : e.ev # "progress")
Rank(e) ==
    CASE e.ev = "write" -> 3 * e.pass
      [] e.ev = "flush" -> 3 * e.pass + 1
      [] e.ev = "sync" -> 3 * e.pass + 2
      [] OTHER -> 3 * 8
Before(io, j, ev, p) == \E i \in 1..(j - 1) : io[i].ev = ev /\ io[i].pass = p

\* C12: within one secure_erase call the events come in the order write(1),
\* flush(1), sync(1), write(2), ..., sync(7), unlink: pass i is flushed and
\* synced before any byte of pass i+1 is written, and the unlink comes only
\* after the sync of pass 7.
C12_SyncBeforeNextPass ==
    \A t \in Threads :
        LET io == IO(t) IN
        \A j \in 1..Len(io) :
            /\ \A i \in 1..(j - 1) :
                  \/ Rank(io[i]) < Rank(io[j])
                  \/ Rank(io[i]) = Rank(io[j]) /\ io[j].ev = "write"
            /\ (io[j].ev = "write" /\ io[j].pass > 1) => Before(io, j, "sync", io[j].pass - 1)
            /\ io[j].ev = "sync" => Before(io, j, "flush", io[j].pass)
            /\ (io[j].ev = "flush" /\ io[j].pass > 1) => Before(io, j, "sync", io[j].pass - 1)
            /\ io[j].ev = "unlink" => Before(io, j, "sync", 7)
C12_Witness ==
    /\ loc[Main].ret = "True"
    /\ loc[Main].entrySize = chunk_size
    /\ Len(IO(Main)) = 7 * 3 + 1

\* ---- progress ----
Prog(t) == SelectSeq(etrace[t], LAMBDA e : e.ev = "progress")
Syncs(t) == SelectSeq(etrace[t], LAMBDA e : e.ev = "sync")

\* C13: the progress update happens exactly once per completed pass, after
\* the pass was synced, with (i, 7): the updates are 1, 2, ... in order, a
\* successful erase has made exactly 7 of them, an erase that failed in pass
\* k exactly k - 1.
C13_ProgressOncePerPass ==
    \A t \in Threads :
        /\ \A i \in 1..Len(Prog(t)) : Prog(t)[i].pass = i /\ Prog(t)[i].total = 7
        /\ Len(Prog(t)) = Len(Syncs(t)) - (IF pc[t] = "e_progress" THEN 1 ELSE 0)
        /\ \A j \in 1..Len(etrace[t]) :
              etrace[t][j].ev = "progress" => Before(etrace[t], j, "sync", etrace[t][j].pass)
        /\ loc[t].ret = "True" => Len(Prog(t)) = 7
        /\ PassFailed(t) => Len(Prog(t)) = FailedPass(t) - 1
C13_Witness ==
    /\ loc[Main].failedAt = "e_write"
    /\ FailedPass(Main) = 3
    /\ Len(Prog(Main)) = 2

\* C14: secure_erase rejects a path that is not itself a regular file: for a
\* directory and for a symbolic link (also one to a regular file) it fails,
\* writes nothing and removes nothing.
C14_RejectsNonRegular ==
    \A t \in Threads : loc[t].entryKind \in {"dir", "link"} =>
        /\ SelectSeq(etrace[t], LAMBDA e : e.ev \in {"write", "unlink"}) = <<>>
        /\ fkind = loc[t].entryKind
        /\ pc[t] = "e_ret" => loc[t].ret = "False"

\* C15: when the secure_erase called by the expiry fails, the failure is
\* reported (an error message is the last thing printed), the Timer ends
\* as fired and stays so: it never calls secure_erase again.
C15_FailedEraseReported ==
    /\ [](\A t \in TimerIds :
            (pc[t] = "e_ret" /\ loc[t].ret = "False") => Report(t).message = "error")
    /\ [][\A t \in TimerIds :
            /\ (pc[t] = "e_ret" /\ pc'[t] # "e_ret") => pc'[t] = "fired"
            /\ pc[t] = "fired" => pc'[t] = "fired"]_vars

\* ---- locking ----
Bodies == {"start_body", "reset_body", "cancel_body"}

\* C16: start, reset, cancel and the callback's fire decision read and write
\* cancelled and timer only while the acting thread holds the lock, and at
\* most one thread holds the lock.
C16_StateUnderLock ==
    /\ [](/\ Cardinality(lock) <= 1
          /\ pc[Main] \in Bodies => Main \in lock
          /\ \A t \in TimerIds : pc[t] = "cb_check" => t \in lock)
    /\ [][(cancelled' # cancelled \/ timer' # timer) => lock = {Main}]_vars
C16_Witness ==
    /\ pc[Main] = "cancel_body"
    /\ lock = {Main}
    /\ \E t \in TimerIds : pc[t] = "cb_lock"

\* C17: at most one Timer of the instance is pending (started, not
\* cancelled, not yet expired) in every reachable state.
Pending(t) == pc[t] = "waiting" /\ ~finished[t]
C17_SingleFlight == Cardinality({t \in TimerIds : Pending(t)}) <= 1
C17_Witness ==
    /\ nTimers = 2
    /\ pc[1] = "waiting" /\ finished[1]
    /\ Pending(2)

\* ---- the measured size ----
LastEvent(t) == etrace'[t][Len(etrace'[t])]
WritesNow(t) ==
    /\ Len(etrace'[t]) = Len(etrace[t]) + 1
    /\ LastEvent(t).ev = "write"

\* C18: file_size is measured once per secure_erase call; whatever another
\* process does to the file's length meanwhile, every pass writes exactly
\* that many bytes from offset 0: a write leaves the bytes after it as they
\* were (appended bytes beyond the measured size are never overwritten) and
\* extends a file that was cut short.
C18_MeasuredOnce ==
    /\ [][\A t \in Threads :
            (pc[t] \in ErasePcs \ {"e_stat"} /\ pc'[t] \in ErasePcs)
                => loc'[t].file_size = loc[t].file_size]_vars
    /\ [](\A t \in Threads : \A p \in 1..7 :
            LET ws == Writes(t, p) IN
            /\ Count(t, "flush", p) = 1 => Total(ws) = loc[t].file_size
            /\ \A i \in 1..Len(ws) :
                  /\ ws[i].off = Total(SubSeq(ws, 1, i - 1))
                  /\ ws[i].off + ws[i].len <= loc[t].file_size)
    /\ [][\A t \in Threads : WritesNow(t) =>
            LET end == LastEvent(t).off + LastEvent(t).len IN
            /\ Size(fdata') >= end
            /\ Take(fdata', end) = Norm(Take(fdata, LastEvent(t).off)
                    \o <<(<<"00", LastEvent(t).off - Size(Take(fdata, LastEvent(t).off))>>)>>
                    \o <<(<<Pattern(loc[t].pass_num), LastEvent(t).len>>)>>)
            /\ Drop(fdata', end) = Drop(fdata, end)]_vars
C18_Witness ==
    /\ pc[Main] = "e_unlink"
    /\ loc[Main].file_size = chunk_size
    /\ fdata = <<(<<"AA", chunk_size>>), (<<"GG", 1>>)>>

\* C19: the callback holds the lock from its check of cancelled to the end
\* of secure_erase: while a Timer's erase runs no start, reset or cancel is
\* inside its critical section, and at the step in which cancel() returns
\* no Timer's erase is in progress.
CancelReturns == pc[Main] = "cancel_body" /\ pc'[Main] = "idle"
C19_EraseUnderLock ==
    /\ [](\A t \in TimerIds : pc[t] \in ErasePcs \cup {"cb_check"} =>
            /\ lock = {t}
            /\ pc[Main] \notin Bodies)
    /\ [][CancelReturns =>
            \A t \in TimerIds : pc[t] \notin ErasePcs /\ pc'[t] \notin ErasePcs]_vars
C19_Witness ==
    /\ pc[Main] = "cancel_lock"
    /\ \E t \in TimerIds : pc[t] = "e_write" /\ lock = {t}

\* ---- the command loop ----
Erasing == {t \in Threads : pc[t] \in ErasePcs}
BeginsErase(t) == pc[t] \notin ErasePcs /\ pc'[t] \in ErasePcs
CancelledByCommand == cmd \in {"e", "q", "done"} /\ pc[Main] \notin {"cancel_lock", "cancel_body"}

====
